---------------------------- MODULE Spec2Model ----------------------------
(***************************************************************************)
(* A model of src/script.py, the paid-statements batch job: fetch the      *)
(* upstream rows, write new.csv, diff it against old.csv, partition the    *)
(* new entries by sale type, insert subtotal rows, mail one report per     *)
(* sale type and one master report, and rotate new.csv into old.csv.       *)
(*                                                                         *)
(* Conventions.  A text (a Python str) is a sequence of one-character      *)
(* strings, so that slicing, replacing and parsing are computed.  A Python *)
(* float is the cell Float(n), n counting hundredths: the inputs drawn     *)
(* below carry at most two fractional digits, and binary rounding of float *)
(* addition is not modelled.  A row is a sequence of cells; Python's       *)
(* 0-based column c is element c + 1 of the sequence.  A CSV file is its   *)
(* parsed content, the sequence of its rows.                               *)
(***************************************************************************)
EXTENDS Integers, Sequences, FiniteSets, TLC

(***************************************************************************)
(* Bounds of the model.                                                    *)
(***************************************************************************)
MaxRows == 4
MaxOld == 1
MaxRuns == 2
RunRows == 3

(***************************************************************************)
(* Texts.                                                                  *)
(***************************************************************************)
Digits == {"0", "1", "2", "3", "4", "5", "6", "7", "8", "9"}

DigitVal ==
  "0" :> 0 @@ "1" :> 1 @@ "2" :> 2 @@ "3" :> 3 @@ "4" :> 4 @@
  "5" :> 5 @@ "6" :> 6 @@ "7" :> 7 @@ "8" :> 8 @@ "9" :> 9

DigitChar == <<"0", "1", "2", "3", "4", "5", "6", "7", "8", "9">>

Repeat(cell, n) == [k \in 1..n |-> cell]

\* Python's s[:n]
Prefix(s, n) == SubSeq(s, 1, IF Len(s) < n THEN Len(s) ELSE n)

\* Python's s.replace(c, '') for a one-character c
RECURSIVE Remove(_, _)
Remove(s, c) ==
  IF s = <<>> THEN <<>>
  ELSE IF Head(s) = c THEN Remove(Tail(s), c)
       ELSE <<Head(s)>> \o Remove(Tail(s), c)

RECURSIVE DigitsToNat(_)
DigitsToNat(s) ==
  IF s = <<>> THEN 0
  ELSE 10 * DigitsToNat(SubSeq(s, 1, Len(s) - 1)) + DigitVal[s[Len(s)]]

RECURSIVE NatToDigits(_)
NatToDigits(n) ==
  IF n < 10 THEN <<DigitChar[n + 1]>>
  ELSE NatToDigits(n \div 10) \o <<DigitChar[(n % 10) + 1]>>

AllDigits(s) == \A k \in 1..Len(s) : s[k] \in Digits

\* Position of the first "." of s, or 0
DotPos(s) ==
  IF \E k \in 1..Len(s) : s[k] = "."
  THEN CHOOSE k \in 1..Len(s) : s[k] = "." /\ \A m \in 1..(k - 1) : s[m] # "."
  ELSE 0

\* The hundredths denoted by the fractional digits f (digits past the second
\* are below the model's precision)
FracHundredths(f) ==
  IF Len(f) = 0 THEN 0
  ELSE IF Len(f) = 1 THEN 10 * DigitVal[f[1]]
  ELSE 10 * DigitVal[f[1]] + DigitVal[f[2]]

\* Python's float(s) for a plain decimal literal: an optional sign, digits,
\* an optional point and digits, at least one digit.  ok = FALSE is ValueError.
ParseFloat(s) ==
  LET neg  == s # <<>> /\ Head(s) = "-"
      pos  == s # <<>> /\ Head(s) = "+"
      body == IF neg \/ pos THEN Tail(s) ELSE s
      dot  == DotPos(body)
      ip   == IF dot = 0 THEN body ELSE SubSeq(body, 1, dot - 1)
      fp   == IF dot = 0 THEN <<>> ELSE SubSeq(body, dot + 1, Len(body))
      good == AllDigits(ip) /\ AllDigits(fp) /\ Len(ip) + Len(fp) > 0
      mag  == 100 * DigitsToNat(ip) + FracHundredths(fp)
  IN  IF good THEN [ok |-> TRUE, val |-> IF neg THEN 0 - mag ELSE mag]
      ELSE [ok |-> FALSE, val |-> 0]

\* Python's str(x) of a float x, as csv.writer writes it: the shortest
\* representation, with at least one fractional digit and no grouping
FloatRepr(n) ==
  LET mag  == IF n < 0 THEN 0 - n ELSE n
      ip   == NatToDigits(mag \div 100)
      fr   == mag % 100
      fp   == IF fr % 10 = 0 THEN <<DigitChar[(fr \div 10) + 1]>>
              ELSE <<DigitChar[(fr \div 10) + 1], DigitChar[(fr % 10) + 1]>>
  IN  (IF n < 0 THEN <<"-">> ELSE <<>>) \o ip \o <<".">> \o fp

\* A float cell: the tag "float" (no text starts with it, a text's elements
\* being single characters), the sign and the digits of the hundredths
Float(n) ==
  <<"float", IF n < 0 THEN "-" ELSE "+">> \o NatToDigits(IF n < 0 THEN 0 - n ELSE n)

IsFloat(cell) == Len(cell) > 0 /\ cell[1] = "float"

FloatVal(cell) ==
  LET mag == DigitsToNat(SubSeq(cell, 3, Len(cell)))
  IN  IF cell[2] = "-" THEN 0 - mag ELSE mag


(***************************************************************************)
(* Rows and files.                                                         *)
(***************************************************************************)
\* rows[p] and row[c] with Python's 0-based indices
At(rows, p) == rows[p + 1]
Col(row, c) == row[c + 1]

\* list.insert(p, r)
Insert(rows, p, r) == SubSeq(rows, 1, p) \o <<r>> \o SubSeq(rows, p + 1, Len(rows))

\* The columns getNewEntries converts and addSubtotals sums
NumericCols == <<7, 8, 10, 12>>
NumericColSet == {NumericCols[k] : k \in 1..Len(NumericCols)}

SubtotalLabel == <<"S", "u", "b", "t", "o", "t", "a", "l", ":">>

\* ['Subtotal:','','','','','','','7','8','','10','','12']
SubtotalTemplate ==
  <<SubtotalLabel, <<>>, <<>>, <<>>, <<>>, <<>>, <<>>, <<"7">>, <<"8">>,
    <<>>, <<"1", "0">>, <<>>, <<"1", "2">>>>

\* ['-'] * 13
BufferRow == Repeat(<<"-">>, 13)

\* ['~~~~~~'] * 14
MasterSeparatorRow == Repeat(<<"~", "~", "~", "~", "~", "~">>, 14)

\* A csv file that does not exist, and one holding the given rows
NoFile == [exists |-> FALSE, rows |-> <<>>]
File(rows) == [exists |-> TRUE, rows |-> rows]

(***************************************************************************)
(* recipientsDict and the subjects of the mails.                           *)
(***************************************************************************)
Addr == <<"jamie.brine@brightwells.com">>
MasterKey == <<"m", "a", "s", "t", "e", "r">>

recipientsDict ==
  [k \in {<<"C", "V">>, <<"V", "T">>, <<"C", "C">>, <<"P", "M">>, MasterKey} |-> Addr]

GroupSubject(key) == <<key, "Payments Raised Yesterday">>
MasterSubject == <<<<"A", "l", "l">>, "Payments Raised Yesterday">>

(***************************************************************************)
(* getNewEntries.                                                          *)
(***************************************************************************)
\* entry[i] = float(entry[i].replace(',', '')) for i in [7, 8, 10, 12];
\* ok = FALSE when a column is missing (IndexError) or float raises
CanConvert(entry) ==
  \A c \in NumericColSet :
     c < Len(entry) /\ ParseFloat(Remove(Col(entry, c), ",")).ok

ConvertEntry(entry) ==
  [k \in 1..Len(entry) |->
     IF (k - 1) \in NumericColSet
     THEN Float(ParseFloat(Remove(entry[k], ",")).val)
     ELSE entry[k]]

\* (mutant of SelectNew: the difference of two sets of rows, as a list)
SelectNew_Set(oldFileRows, newFileRows) ==
  LET S == {newFileRows[k] : k \in 1..Len(newFileRows)}
           \ {oldFileRows[k] : k \in 1..Len(oldFileRows)}
      RECURSIVE Pick(_, _)
      Pick(rest, seen) ==
        IF rest = <<>> THEN <<>>
        ELSE IF Head(rest) \in S /\ Head(rest) \notin seen
             THEN <<Head(rest)>> \o Pick(Tail(rest), seen \cup {Head(rest)})
             ELSE Pick(Tail(rest), seen)
  IN  Pick(newFileRows, {})

\* [row for row in newRows if tuple(row) not in oldRows]
SelectNew(oldFileRows, newFileRows) ==
  LET oldRows == {oldFileRows[k] : k \in 1..Len(oldFileRows)}
  IN  SelectSeq(newFileRows, LAMBDA row : row \notin oldRows)

\* The result of getNewEntries on the two files' rows; ok = FALSE when it raises
getNewEntries(oldFileRows, newFileRows) ==
  LET fresh == SelectNew(oldFileRows, newFileRows)
  IN  IF \A k \in 1..Len(fresh) : CanConvert(fresh[k])
      THEN [ok |-> TRUE, rows |-> [k \in 1..Len(fresh) |-> ConvertEntry(fresh[k])]]
      ELSE [ok |-> FALSE, rows |-> <<>>]

(***************************************************************************)
(* splitBySaleType.  A Python dict is the sequence of its (key, value)     *)
(* pairs in insertion order.                                               *)
(***************************************************************************)
HasKey(dict, key) == \E g \in 1..Len(dict) : dict[g].key = key

\* saleType = row[0][:2]
SaleType(row) == Prefix(Col(row, 0), 2)

\* (mutant of SplitStep: a later row of a sale type replaces the earlier ones)
SplitStep_Replace(dict, row) ==
  LET saleType == SaleType(row)
  IN  IF HasKey(dict, saleType)
      THEN [g \in 1..Len(dict) |->
              IF dict[g].key = saleType
              THEN [key |-> saleType, rows |-> <<row>>]
              ELSE dict[g]]
      ELSE Append(dict, [key |-> saleType, rows |-> <<row>>])

\* One iteration of the loop over rows
SplitStep(dict, row) ==
  LET saleType == SaleType(row)
  IN  IF HasKey(dict, saleType)
      THEN [g \in 1..Len(dict) |->
              IF dict[g].key = saleType
              THEN [key |-> saleType, rows |-> Append(dict[g].rows, row)]
              ELSE dict[g]]
      ELSE Append(dict, [key |-> saleType, rows |-> <<row>>])

RECURSIVE SplitLoop(_, _)
SplitLoop(dict, rows) ==
  IF rows = <<>> THEN dict
  ELSE SplitLoop(SplitStep(dict, Head(rows)), Tail(rows))

splitBySaleType(rows) == SplitLoop(<<>>, rows)

(***************************************************************************)
(* addSubtotals.                                                           *)
(***************************************************************************)
\* sum(rows[k][c] for k in range(lo, hi))
RECURSIVE SumCol(_, _, _, _)
SumCol(rows, c, lo, hi) ==
  IF lo >= hi THEN 0
  ELSE FloatVal(Col(At(rows, lo), c)) + SumCol(rows, c, lo + 1, hi)

\* (mutant of KMin: the first row after the buffer row is skipped)
KMin_SkipOne(subtotalRows) ==
  IF subtotalRows = <<>> THEN 0 ELSE subtotalRows[Len(subtotalRows)] + 2

\* The first index summed: 0, or the index after the last buffer row
KMin(subtotalRows) ==
  IF subtotalRows = <<>> THEN 0 ELSE subtotalRows[Len(subtotalRows)] + 1

\* The subtotal row of rows[kMin .. kMax - 1]
MakeSubtotalRow(rows, kMin, kMax) ==
  [k \in 1..Len(SubtotalTemplate) |->
     IF (k - 1) \in NumericColSet
     THEN Float(SumCol(rows, k - 1, kMin, kMax))
     ELSE SubtotalTemplate[k]]

\* (mutant of WhileStep: currentSaleNo is not updated at a boundary)
WhileStep_StaleSaleNo(st) ==
  LET j == st.i + 2 * Len(st.subtotalRows)
  IN  IF Col(At(st.rows, j), 0) # st.currentSaleNo
      THEN LET subtotalRow == MakeSubtotalRow(st.rows, KMin(st.subtotalRows), j)
               r1 == Insert(st.rows, j, subtotalRow)
               r2 == Insert(r1, j + 1, BufferRow)
           IN  [rows |-> r2,
                subtotalRows |-> Append(st.subtotalRows, j + 1),
                currentSaleNo |-> st.currentSaleNo,
                i |-> st.i + 1]
      ELSE [st EXCEPT !.i = st.i + 1]

\* One iteration of the while loop on the state (rows, subtotalRows,
\* currentSaleNo, i)
WhileStep(st) ==
  LET j == st.i + 2 * Len(st.subtotalRows)
  IN  IF Col(At(st.rows, j), 0) # st.currentSaleNo
      THEN LET subtotalRow == MakeSubtotalRow(st.rows, KMin(st.subtotalRows), j)
               r1 == Insert(st.rows, j, subtotalRow)
               r2 == Insert(r1, j + 1, BufferRow)
           IN  [rows |-> r2,
                subtotalRows |-> Append(st.subtotalRows, j + 1),
                currentSaleNo |-> Col(At(r2, j + 2), 0),
                i |-> st.i + 1]
      ELSE [st EXCEPT !.i = st.i + 1]

RECURSIVE WhileLoop(_, _)
WhileLoop(st, numRows) ==
  IF st.i < numRows THEN WhileLoop(WhileStep(st), numRows) ELSE st

\* The body of the loop over sale types, on one sale type's rows
SubtotalGroup(rows) ==
  LET numRows == Len(rows)
      st == WhileLoop([rows |-> rows, subtotalRows |-> <<>>,
                       currentSaleNo |-> Col(At(rows, 0), 0), i |-> 0], numRows)
      kMin == KMin(st.subtotalRows)
      kMax == numRows + 2 * Len(st.subtotalRows)
  IN  Append(st.rows, MakeSubtotalRow(st.rows, kMin, kMax))

addSubtotals(rowDict) ==
  [g \in 1..Len(rowDict) |->
     [key |-> rowDict[g].key, rows |-> SubtotalGroup(rowDict[g].rows)]]

(***************************************************************************)
(* createAttachment.                                                       *)
(***************************************************************************)
\* csv.writer writes str(cell): a str as it is, a float by its repr
WriteCell(cell) == IF IsFloat(cell) THEN FloatRepr(FloatVal(cell)) ELSE cell

WriteRow(row) == [k \in 1..Len(row) |-> WriteCell(row[k])]

createAttachment(rows, headers) ==
  <<WriteRow(headers)>> \o [k \in 1..Len(rows) |-> WriteRow(rows[k])]

(***************************************************************************)
(* The inputs: the header the query returns and the rows it can return.    *)
(***************************************************************************)
Txt_PM1 == <<"P", "M", "1">>
Txt_PM2 == <<"P", "M", "2">>
Txt_CV2 == <<"C", "V", "2">>
Txt_ZZ9 == <<"Z", "Z", "9">>

\* A 13-column row: the sale number, then the four numeric columns' texts
MkRow(sale, c7, c8, c10, c12) ==
  <<sale, <<>>, <<>>, <<>>, <<>>, <<>>, <<>>, c7, c8, <<>>, c10, <<>>, c12>>

HeaderRow ==
  MkRow(<<"S", "a", "l", "e">>, <<"N", "e", "t">>, <<"V", "A", "T">>,
        <<"F", "e", "e">>, <<"D", "u", "e">>)

Row_PM1a ==
  MkRow(Txt_PM1, <<"1", ",", "2", "3", "4", ".", "5", "0">>, <<"0", ".", "0", "5">>,
        <<"1", "0", "0">>, <<"-", "1", "2", ".", "0", "5">>)
\* The values of Row_PM1a in another textual form
Row_PM1b ==
  MkRow(Txt_PM1, <<"1", "2", "3", "4", ".", "5">>, <<"0", ".", "0", "5", "0">>,
        <<"1", "0", "0", ".", "0">>, <<"-", "1", "2", ".", "0", "5">>)
Row_PM2 ==
  MkRow(Txt_PM2, <<"7", ".", "2", "5">>, <<"1", "0", ".", "0", "0">>,
        <<"0", ".", "5", "0">>, <<"4", "0", ".", "0", "0">>)
Row_CV2 ==
  MkRow(Txt_CV2, <<"3", "0", ".", "0", "0">>, <<"6", ".", "0", "0">>,
        <<"1", ".", "1", "0">>, <<"2", ",", "0", "0", "0", ".", "0", "0">>)
Row_ZZ9 ==
  MkRow(Txt_ZZ9, <<"9", ".", "9", "9">>, <<"1", ".", "0", "0">>,
        <<"2", ".", "0", "0">>, <<"3", ".", "0", "0">>)
Row_Empty ==
  MkRow(<<>>, <<"4", ".", "0", "0">>, <<"0", ".", "1", "0">>,
        <<"0", ".", "2", "0">>, <<"0", ".", "3", "0">>)
Row_Bad ==
  MkRow(Txt_PM2, <<"8", ".", "0", "0">>, <<"N", "/", "A">>,
        <<"1", ".", "0", "0">>, <<"1", ".", "0", "0">>)

\* The rows drawn when the functions of the pipeline are checked
FnPool == {Row_PM1a, Row_PM1b, Row_PM2, Row_CV2, Row_ZZ9, Row_Empty, Row_Bad}

\* The rows drawn when whole runs, their failures and their retries are checked
RunPool == {Row_PM1a, Row_CV2, Row_ZZ9, Row_Bad}

\* The rows old.csv is drawn from
OldPool == {Row_PM1a}

RECURSIVE SeqsUpTo(_, _)
SeqsUpTo(S, n) ==
  IF n = 0 THEN {<<>>}
  ELSE LET shorter == SeqsUpTo(S, n - 1)
       IN  shorter \cup {Append(q, e) : q \in shorter, e \in S}

(***************************************************************************)
(* The state.                                                              *)
(***************************************************************************)
VARIABLES
  db,             \* the rows the query returns
  oldcsv,         \* the file old.csv
  newcsv,         \* the file new.csv
  sent,           \* the mails the transport has accepted, oldest first
  logs,           \* the entries of logs.txt, newest first
  exitCodes,      \* the exit codes of the runs so far
  run,            \* the number of the current run
  pc,             \* the statement of main the current run is at
  rows,           \* main's rows
  headers,        \* main's headers
  newEntries,     \* main's newEntries
  rowDict,        \* main's rowDict (rowDictWithSubtotals is the same object)
  keyIdx,         \* the position of main's for loop in the keys of rowDict
  masterCSVRows,  \* main's masterCSVRows
  exception,      \* the statement that raised in the current run, or "None"
  oldAtStart,     \* old.csv as the current run found it
  sentAtStart,    \* the number of mails sent before the current run
  logsAtStart     \* logs.txt as the current run found it

vars ==
  <<db, oldcsv, newcsv, sent, logs, exitCodes, run, pc, rows, headers,
    newEntries, rowDict, keyIdx, masterCSVRows, exception, oldAtStart,
    sentAtStart, logsAtStart>>

files == <<oldcsv, newcsv>>
locals == <<rows, headers, newEntries, rowDict, keyIdx, masterCSVRows>>
history == <<oldAtStart, sentAtStart, logsAtStart>>

InitWith(dbs, olds) ==
  /\ db \in dbs
  /\ oldcsv \in {File(<<HeaderRow>> \o o) : o \in olds}
  /\ newcsv = NoFile
  /\ sent = <<>>
  /\ logs = <<>>
  /\ exitCodes = <<>>
  /\ run = 1
  /\ pc = "getData"
  /\ rows = <<>>
  /\ headers = <<>>
  /\ newEntries = <<>>
  /\ rowDict = <<>>
  /\ keyIdx = 0
  /\ masterCSVRows = <<>>
  /\ exception = "None"
  /\ oldAtStart = oldcsv
  /\ sentAtStart = 0
  /\ logsAtStart = <<>>

Init == InitWith(SeqsUpTo(RunPool, RunRows), SeqsUpTo(OldPool, MaxOld))

InitFn == InitWith(SeqsUpTo(FnPool, MaxRows), SeqsUpTo(OldPool, MaxOld))

(***************************************************************************)
(* main, statement by statement.  A statement that raises takes the run to *)
(* the except clause: logAndExit(e).                                       *)
(***************************************************************************)
Raise(stmt) ==
  /\ exception' = stmt
  /\ pc' = "logAndExit"

\* load_dotenv, open('query.sql'), get6MonthsAgo, getData
GetData ==
  /\ pc = "getData"
  /\ rows' = db
  /\ headers' = HeaderRow
  /\ pc' = "dumpToCSV"
  /\ UNCHANGED <<db, files, sent, logs, exitCodes, run, newEntries, rowDict,
                 keyIdx, masterCSVRows, exception, history>>

GetDataRaises ==
  /\ pc = "getData"
  /\ Raise("getData")
  /\ UNCHANGED <<db, files, sent, logs, exitCodes, run, locals, history>>

\* (mutant of dumpToCSV: the file is opened to append)
dumpToCSV_Append(rs, hs) == File(newcsv.rows \o <<hs>> \o rs)

\* new.csv after dumpToCSV
dumpToCSV(rs, hs) == File(<<hs>> \o rs)

DumpToCSV ==
  /\ pc = "dumpToCSV"
  /\ newcsv' = dumpToCSV(rows, headers)
  /\ pc' = "getNewEntries"
  /\ UNCHANGED <<db, oldcsv, sent, logs, exitCodes, run, locals, exception, history>>

\* open(..., "w") raises and new.csv is as it was, or a write raises and
\* new.csv is left truncated
DumpToCSVRaises ==
  /\ pc = "dumpToCSV"
  /\ newcsv' \in {newcsv, File(<<>>)}
  /\ Raise("dumpToCSV")
  /\ UNCHANGED <<db, oldcsv, sent, logs, exitCodes, run, locals, history>>

GetNewEntries ==
  /\ pc = "getNewEntries"
  /\ IF oldcsv.exists /\ newcsv.exists
        /\ getNewEntries(oldcsv.rows, newcsv.rows).ok
     THEN /\ newEntries' = getNewEntries(oldcsv.rows, newcsv.rows).rows
          /\ pc' = "splitBySaleType"
          /\ UNCHANGED exception
     ELSE /\ Raise("getNewEntries")
          /\ UNCHANGED newEntries
  /\ UNCHANGED <<db, files, sent, logs, exitCodes, run, rows, headers, rowDict,
                 keyIdx, masterCSVRows, history>>

SplitBySaleType ==
  /\ pc = "splitBySaleType"
  /\ rowDict' = splitBySaleType(newEntries)
  /\ pc' = "addSubtotals"
  /\ UNCHANGED <<db, files, sent, logs, exitCodes, run, rows, headers, newEntries,
                 keyIdx, masterCSVRows, exception, history>>

\* addSubtotals, and masterCSVRows = [] before the for loop
AddSubtotals ==
  /\ pc = "addSubtotals"
  /\ rowDict' = addSubtotals(rowDict)
  /\ masterCSVRows' = <<>>
  /\ keyIdx' = 1
  /\ pc' = "for"
  /\ UNCHANGED <<db, files, sent, logs, exitCodes, run, rows, headers, newEntries,
                 exception, history>>

Mail(content, recipients, subject) ==
  [content |-> content, recipients |-> recipients, subject |-> subject]

\* (mutant of ExtendMaster: the separator only between two sale types)
ExtendMaster_Between(master, groupRows) ==
  IF master = <<>> THEN groupRows
  ELSE master \o <<MasterSeparatorRow>> \o groupRows

\* masterCSVRows += rowDictWithSubtotals[key]; masterCSVRows += [['~~~~~~'] * 14]
ExtendMaster(master, groupRows) == master \o groupRows \o <<MasterSeparatorRow>>

\* (mutant of DispatchGroup: the mail of the group is not sent)
DispatchGroup_NoSend ==
  /\ pc = "for"
  /\ keyIdx <= Len(rowDict)
  /\ rowDict[keyIdx].key \in DOMAIN recipientsDict
  /\ masterCSVRows' = ExtendMaster(masterCSVRows, rowDict[keyIdx].rows)
  /\ keyIdx' = keyIdx + 1
  /\ UNCHANGED <<db, files, sent, logs, exitCodes, run, pc, rows, headers,
                 newEntries, rowDict, exception, history>>

\* One iteration of the for loop, sendEmail returning
DispatchGroup ==
  /\ pc = "for"
  /\ keyIdx <= Len(rowDict)
  /\ LET key == rowDict[keyIdx].key
         content == createAttachment(rowDict[keyIdx].rows, headers)
     IN  /\ key \in DOMAIN recipientsDict
         /\ sent' = Append(sent, Mail(content, recipientsDict[key], GroupSubject(key)))
         /\ masterCSVRows' = ExtendMaster(masterCSVRows, rowDict[keyIdx].rows)
  /\ keyIdx' = keyIdx + 1
  /\ UNCHANGED <<db, files, logs, exitCodes, run, pc, rows, headers, newEntries,
                 rowDict, exception, history>>

\* recipientsDict[key] raises KeyError
RecipientsRaises ==
  /\ pc = "for"
  /\ keyIdx <= Len(rowDict)
  /\ rowDict[keyIdx].key \notin DOMAIN recipientsDict
  /\ Raise("recipientsDict")
  /\ UNCHANGED <<db, files, sent, logs, exitCodes, run, locals, history>>

\* sendEmail raises in an iteration of the for loop: nothing is sent
DispatchGroupRaises ==
  /\ pc = "for"
  /\ keyIdx <= Len(rowDict)
  /\ rowDict[keyIdx].key \in DOMAIN recipientsDict
  /\ Raise("sendEmail")
  /\ UNCHANGED <<db, files, sent, logs, exitCodes, run, locals, history>>

\* (mutant of DispatchMaster: an empty master report is not sent)
DispatchMaster_SkipEmpty ==
  /\ pc = "for"
  /\ keyIdx > Len(rowDict)
  /\ sent' = IF masterCSVRows = <<>> THEN sent
             ELSE Append(sent, Mail(createAttachment(masterCSVRows, headers),
                                    recipientsDict[MasterKey], MasterSubject))
  /\ pc' = "renameFiles"
  /\ UNCHANGED <<db, files, logs, exitCodes, run, locals, exception, history>>

\* The statements after the for loop, sendEmail returning
DispatchMaster ==
  /\ pc = "for"
  /\ keyIdx > Len(rowDict)
  /\ sent' = Append(sent, Mail(createAttachment(masterCSVRows, headers),
                               recipientsDict[MasterKey], MasterSubject))
  /\ pc' = "renameFiles"
  /\ UNCHANGED <<db, files, logs, exitCodes, run, locals, exception, history>>

DispatchMasterRaises ==
  /\ pc = "for"
  /\ keyIdx > Len(rowDict)
  /\ Raise("sendEmailMaster")
  /\ UNCHANGED <<db, files, sent, logs, exitCodes, run, locals, history>>

\* renameFiles returning: old.csv removed if it exists, new.csv renamed to
\* old.csv if it exists
RenameFiles ==
  /\ pc = "renameFiles"
  /\ LET afterRemove == IF oldcsv.exists THEN NoFile ELSE oldcsv
     IN  /\ oldcsv' = IF newcsv.exists THEN newcsv ELSE afterRemove
         /\ newcsv' = NoFile
  /\ pc' = "logAndExit"
  /\ UNCHANGED <<db, sent, logs, exitCodes, run, locals, exception, history>>

\* os.remove raises: both files are as they were
RenameFilesRemoveRaises ==
  /\ pc = "renameFiles"
  /\ oldcsv.exists
  /\ Raise("renameFiles")
  /\ UNCHANGED <<db, files, sent, logs, exitCodes, run, locals, history>>

\* os.rename raises, after os.remove has removed old.csv
RenameFilesRenameRaises ==
  /\ pc = "renameFiles"
  /\ newcsv.exists
  /\ oldcsv' = NoFile
  /\ Raise("renameFiles")
  /\ UNCHANGED <<db, newcsv, sent, logs, exitCodes, run, locals, history>>

\* (mutant of ExitCode: the process always exits with 0)
ExitCode_Zero(exc) == 0

\* exitCode = 1 if exception else 0

ExitCode(exc) == IF exc = "None" THEN 0 ELSE 1

\* The header of the entry logAndExit writes
LogEntry(exc) == IF exc = "None" THEN "SUCCESS" ELSE "ERROR"

\* logAndExit: the entry is written at the top of the log; or reading the
\* log or opening it to write raises and the log is as it was; or the log is
\* opened to write, which empties it, and the write raises.  In the last two
\* cases the fallback prints.  The process exits in all three.
LogAndExit ==
  /\ pc = "logAndExit"
  /\ logs' \in {<<LogEntry(exception)>> \o logs, logs, <<>>}
  /\ exitCodes' = Append(exitCodes, ExitCode(exception))
  /\ pc' = "exited"
  /\ UNCHANGED <<db, files, sent, run, locals, exception, history>>

\* The scheduler starts the next run
StartRun ==
  /\ pc = "exited"
  /\ run < MaxRuns
  /\ run' = run + 1
  /\ pc' = "getData"
  /\ rows' = <<>>
  /\ headers' = <<>>
  /\ newEntries' = <<>>
  /\ rowDict' = <<>>
  /\ keyIdx' = 0
  /\ masterCSVRows' = <<>>
  /\ exception' = "None"
  /\ oldAtStart' = oldcsv
  /\ sentAtStart' = Len(sent)
  /\ logsAtStart' = logs
  /\ UNCHANGED <<db, files, sent, logs, exitCodes>>

Next ==
  \/ GetData \/ GetDataRaises
  \/ DumpToCSV \/ DumpToCSVRaises
  \/ GetNewEntries
  \/ SplitBySaleType
  \/ AddSubtotals
  \/ DispatchGroup \/ RecipientsRaises \/ DispatchGroupRaises
  \/ DispatchMaster \/ DispatchMasterRaises
  \/ RenameFiles \/ RenameFilesRemoveRaises \/ RenameFilesRenameRaises
  \/ LogAndExit
  \/ StartRun

Spec == Init /\ [][Next]_vars

\* One run in which no call to a collaborator fails: the functions of the
\* pipeline applied to every drawn pair of snapshots
NextFn ==
  \/ GetData
  \/ DumpToCSV
  \/ GetNewEntries
  \/ SplitBySaleType
  \/ AddSubtotals
  \/ DispatchGroup \/ RecipientsRaises
  \/ DispatchMaster
  \/ RenameFiles
  \/ LogAndExit

SpecFn == InitFn /\ [][NextFn]_vars

(***************************************************************************)
(* Properties.  Helpers first: they restate what the claims speak of      *)
(* without the operators of the pipeline.                                  *)
(***************************************************************************)
Min2(n) == IF n < 2 THEN n ELSE 2

\* The first two characters of a row's column 0
KeyOf(row) == SubSeq(row[1], 1, Min2(Len(row[1])))

\* The number of elements of the set of positions S that are <= k
Rank(S, k) == Cardinality({m \in S : m <= k})

\* The n-th smallest element of the set of positions S
Nth(S, n) == CHOOSE k \in S : Rank(S, k) = n

\* The mails of the current run
RunSent == SubSeq(sent, sentAtStart + 1, Len(sent))

\* The rows of a sale type among the new entries, before addSubtotals
GroupOrig(key) == SelectSeq(newEntries, LAMBDA e : KeyOf(e) = key)

\* The positions at which a maximal run of equal column 0 starts, and the
\* last position of the run starting at s
RunStarts(orig) == {p \in 1..Len(orig) : p = 1 \/ orig[p][1] # orig[p - 1][1]}

RunEnd(orig, s) ==
  IF \E t \in RunStarts(orig) : t > s
  THEN (CHOOSE t \in RunStarts(orig) :
          t > s /\ \A u \in RunStarts(orig) : u > s => t <= u) - 1
  ELSE Len(orig)

\* The sum of column c (0-based) over orig[lo..hi]
RECURSIVE RangeSum(_, _, _, _)
RangeSum(orig, c, lo, hi) ==
  IF lo > hi THEN 0
  ELSE RangeSum(orig, c, lo, hi - 1) + FloatVal(orig[hi][c + 1])

IsSubtotalRow(row) == row[1] = SubtotalLabel

(***************************************************************************)
(* C1: getNewEntries returns exactly the rows of new.csv whose raw tuple   *)
(* is not a row of old.csv, in the order of new.csv and as often as they   *)
(* occur there; membership is decided on the raw text, and only then are   *)
(* columns 7, 8, 10 and 12 converted to numbers.                           *)
(***************************************************************************)
C1_NewPositions ==
  {k \in 1..Len(newcsv.rows) :
     \A m \in 1..Len(oldcsv.rows) : oldcsv.rows[m] # newcsv.rows[k]}

C1_DiffIsRawOrdered ==
  pc = "splitBySaleType" =>
    /\ Len(newEntries) = Cardinality(C1_NewPositions)
    /\ \A k \in C1_NewPositions :
         LET raw == newcsv.rows[k]
             e == newEntries[Rank(C1_NewPositions, k)]
         IN  /\ Len(e) = Len(raw)
             /\ \A c \in 1..Len(raw) :
                  IF (c - 1) \in {7, 8, 10, 12}
                  THEN /\ IsFloat(e[c])
                       /\ FloatVal(e[c]) = ParseFloat(Remove(raw[c], ",")).val
                  ELSE e[c] = raw[c]

\* A row of old.csv is filtered out, a row occurring twice is returned twice,
\* and a row differing from an old one only in its number format is returned
C1_Witness ==
  /\ pc = "splitBySaleType"
  /\ oldcsv.rows = <<HeaderRow, Row_PM1a>>
  /\ newcsv.rows = <<HeaderRow, Row_PM1b, Row_PM1a, Row_PM1b>>
  /\ Len(newEntries) = 2
  /\ newEntries[1] = newEntries[2]

(***************************************************************************)
(* C2: after addSubtotals every sale type's list holds as many Subtotal    *)
(* rows as the original list has maximal runs of equal column 0, and the   *)
(* m-th Subtotal row carries in columns 7, 8, 10 and 12 the sums over      *)
(* exactly the data rows of the m-th run.                                  *)
(***************************************************************************)
C2_SubtotalPositions(out) == {q \in 1..Len(out) : IsSubtotalRow(out[q])}

C2_GroupOk(orig, out) ==
  LET starts == RunStarts(orig)
      subs == C2_SubtotalPositions(out)
  IN  /\ Cardinality(subs) = Cardinality(starts)
      /\ \A s \in starts :
           LET q == Nth(subs, Rank(starts, s))
           IN  \A c \in {7, 8, 10, 12} :
                 /\ IsFloat(out[q][c + 1])
                 /\ FloatVal(out[q][c + 1]) = RangeSum(orig, c, s, RunEnd(orig, s))

C2_SubtotalsPerRun ==
  (pc = "for" /\ keyIdx = 1) =>
    \A g \in 1..Len(rowDict) :
      C2_GroupOk(GroupOrig(rowDict[g].key), rowDict[g].rows)

\* A sale type with four rows in three runs, the first run of two rows
C2_Witness ==
  /\ pc = "for" /\ keyIdx = 1
  /\ \E g \in 1..Len(rowDict) :
       LET orig == GroupOrig(rowDict[g].key)
       IN  /\ Len(orig) = 4
           /\ RunStarts(orig) = {1, 3, 4}
           /\ Cardinality(C2_SubtotalPositions(rowDict[g].rows)) = 3

(***************************************************************************)
(* C3: splitBySaleType puts every new entry in exactly one group, the one  *)
(* keyed by the first two characters of its column 0 (an empty key too);   *)
(* no group is empty, every group keeps the order of the new entries, and  *)
(* the groups are in the order of the first occurrence of their keys.      *)
(***************************************************************************)
C3_FirstPos(key) ==
  CHOOSE k \in 1..Len(newEntries) :
    /\ KeyOf(newEntries[k]) = key
    /\ \A m \in 1..(k - 1) : KeyOf(newEntries[m]) # key

C3_PartitionByPrefix ==
  pc = "addSubtotals" =>
    /\ \A g \in 1..Len(rowDict) :
         /\ rowDict[g].rows # <<>>
         /\ rowDict[g].rows = GroupOrig(rowDict[g].key)
    /\ \A g, h \in 1..Len(rowDict) :
         g < h => /\ rowDict[g].key # rowDict[h].key
                  /\ C3_FirstPos(rowDict[g].key) < C3_FirstPos(rowDict[h].key)
    /\ \A k \in 1..Len(newEntries) :
         Cardinality({g \in 1..Len(rowDict) : rowDict[g].key = KeyOf(newEntries[k])}) = 1

\* Three new entries, the second with an empty column 0, the third of the
\* first one's sale type
C3_Witness ==
  /\ pc = "addSubtotals"
  /\ Len(newEntries) = 3
  /\ Len(rowDict) = 2
  /\ rowDict[1].key = <<"P", "M">> /\ Len(rowDict[1].rows) = 2
  /\ rowDict[2].key = <<>>

(***************************************************************************)
(* C10: after addSubtotals a sale type's list is its original rows in      *)
(* their order, with a Subtotal row and then a buffer row right after the  *)
(* last row of every run but the final one, and a Subtotal row alone as    *)
(* the very last row; removing the inserted rows gives the original list   *)
(* back, and the length is n + 2r - 1 for n rows in r runs.                *)
(***************************************************************************)
C10_GroupLayout(orig, out) ==
  LET starts == RunStarts(orig)
      n == Len(orig)
      r == Cardinality(starts)
  IN  /\ Len(out) = n + 2 * r - 1
      /\ \A p \in 1..n : out[p + 2 * (Rank(starts, p) - 1)] = orig[p]
      /\ \A s \in starts :
           LET m == Rank(starts, s)
               e == RunEnd(orig, s)
           IN  /\ IsSubtotalRow(out[e + 2 * (m - 1) + 1])
               /\ m < r => out[e + 2 * m] = BufferRow
      /\ IsSubtotalRow(out[Len(out)])
      /\ SelectSeq(out, LAMBDA row : ~IsSubtotalRow(row) /\ row # BufferRow) = orig

C10_SubtotalLayout ==
  (pc = "for" /\ keyIdx = 1) =>
    \A g \in 1..Len(rowDict) :
      C10_GroupLayout(GroupOrig(rowDict[g].key), rowDict[g].rows)

\* A sale type whose four rows are three runs: nine rows after addSubtotals
C10_Witness ==
  /\ pc = "for" /\ keyIdx = 1
  /\ \E g \in 1..Len(rowDict) :
       /\ RunStarts(GroupOrig(rowDict[g].key)) = {1, 2, 4}
       /\ Len(rowDict[g].rows) = 9
       /\ rowDict[g].rows[3] = BufferRow
       /\ IsSubtotalRow(rowDict[g].rows[9])

(***************************************************************************)
(* C9: in every data row of a dispatched artifact columns 7, 8, 10 and 12  *)
(* are written with grouping separators and two decimal places, so that a  *)
(* value read as "1,234.50" from new.csv is written as "1,234.50".         *)
(***************************************************************************)
\* An optional sign, digits grouped in threes by commas, a point, two digits
C9_Grouped2dp(t) ==
  LET body == IF t # <<>> /\ Head(t) = "-" THEN Tail(t) ELSE t
      dot == DotPos(body)
      ip == SubSeq(body, 1, dot - 1)
  IN  /\ dot > 1
      /\ Len(body) = dot + 2
      /\ body[dot + 1] \in Digits /\ body[dot + 2] \in Digits
      /\ \A k \in 1..Len(ip) :
           IF (Len(ip) - k + 1) % 4 = 0 THEN ip[k] = "," ELSE ip[k] \in Digits

C9_IsDataRow(row) ==
  ~IsSubtotalRow(row) /\ row # BufferRow /\ row # MasterSeparatorRow

C9_RoundTrip ==
  pc = "for" =>
    \A i \in 1..Len(RunSent) :
      \A q \in 2..Len(RunSent[i].content) :
        LET row == RunSent[i].content[q]
        IN  C9_IsDataRow(row) =>
              /\ \A c \in {7, 8, 10, 12} : C9_Grouped2dp(row[c + 1])
              /\ \E k \in 2..Len(newcsv.rows) :
                   LET raw == newcsv.rows[k]
                   IN  /\ raw[1] = row[1]
                       /\ \A c \in {7, 8, 10, 12} :
                            /\ ParseFloat(Remove(raw[c + 1], ","))
                                 = ParseFloat(Remove(row[c + 1], ","))
                            /\ C9_Grouped2dp(raw[c + 1]) => row[c + 1] = raw[c + 1]

(***************************************************************************)
(* The artifacts of one run that succeeds, from old.csv and the upstream   *)
(* rows.                                                                   *)
(***************************************************************************)
RECURSIVE FlatWithSeparators(_)
FlatWithSeparators(d) ==
  IF d = <<>> THEN <<>>
  ELSE FlatWithSeparators(SubSeq(d, 1, Len(d) - 1))
         \o d[Len(d)].rows \o <<MasterSeparatorRow>>

CountRow(rs, row) == Cardinality({k \in 1..Len(rs) : rs[k] = row})

OneRunSent(oldRows, dbRows) ==
  LET d == addSubtotals(splitBySaleType(
             getNewEntries(oldRows, <<HeaderRow>> \o dbRows).rows))
  IN  [g \in 1..Len(d) |->
         Mail(createAttachment(d[g].rows, HeaderRow), recipientsDict[d[g].key],
              GroupSubject(d[g].key))]
      \o <<Mail(createAttachment(FlatWithSeparators(d), HeaderRow),
                recipientsDict[MasterKey], MasterSubject)>>

(***************************************************************************)
(* C4: if any statement of a run raises, renameFiles included, old.csv is  *)
(* after the run what it was before it; old.csv is replaced by new.csv     *)
(* only in a run in which every dispatch, the master's too, has completed. *)
(***************************************************************************)
C4_OldUntouchedOnFailure ==
  /\ exception # "None" => oldcsv = oldAtStart
  /\ oldcsv # oldAtStart =>
       /\ pc \in {"logAndExit", "exited"}
       /\ oldcsv = File(<<headers>> \o rows)
       /\ Len(RunSent) = Len(rowDict) + 1
       /\ RunSent[Len(RunSent)].subject = MasterSubject

(***************************************************************************)
(* C5: in a run that succeeds every group of the partition is dispatched   *)
(* exactly once, as the header and the group's rows with their subtotals,  *)
(* in the order of the groups, and exactly one master artifact is          *)
(* dispatched, after all of them, to the recipients of 'master'.           *)
(***************************************************************************)
C5_DispatchOncePerGroupThenMaster ==
  (pc \in {"renameFiles", "logAndExit", "exited"} /\ exception = "None") =>
    /\ Len(RunSent) = Len(rowDict) + 1
    /\ \A g \in 1..Len(rowDict) :
         /\ RunSent[g].subject = GroupSubject(rowDict[g].key)
         /\ RunSent[g].recipients = recipientsDict[rowDict[g].key]
         /\ RunSent[g].content =
              <<headers>> \o [k \in 1..Len(rowDict[g].rows) |-> WriteRow(rowDict[g].rows[k])]
         /\ \A h \in 1..Len(rowDict) : h # g => RunSent[h].subject # RunSent[g].subject
    /\ RunSent[Len(RunSent)].subject = MasterSubject
    /\ RunSent[Len(RunSent)].recipients = recipientsDict[MasterKey]
    /\ \A i \in 1..(Len(RunSent) - 1) : RunSent[i].subject # MasterSubject

\* A run that has succeeded with two groups: three mails
C5_Witness ==
  /\ pc = "exited"
  /\ exception = "None"
  /\ Len(rowDict) = 2
  /\ Len(RunSent) = 3

(***************************************************************************)
(* C6: a group whose key has no entry in recipientsDict is still           *)
(* dispatched, to a default set of recipients: it neither stays            *)
(* undelivered nor aborts the run.                                         *)
(***************************************************************************)
C6_UnmappedKeyStillDispatched ==
  \A g \in 1..Len(rowDict) :
    (/\ pc \in {"logAndExit", "exited"}
     /\ keyIdx >= g
     /\ rowDict[g].key \notin DOMAIN recipientsDict)
    => /\ exception # "recipientsDict"
       /\ \E i \in 1..Len(RunSent) : RunSent[i].subject = GroupSubject(rowDict[g].key)

(***************************************************************************)
(* C7, as claimed: the master report is the groups' lists in the order of  *)
(* the groups with a separator row, different from the buffer row inside a *)
(* group, between consecutive groups: n - 1 separator rows for n >= 1      *)
(* groups, and none after the last group.                                  *)
(***************************************************************************)
C7_SeparatorsOnlyBetweenGroups ==
  (pc = "renameFiles" /\ Len(rowDict) >= 1) =>
    /\ CountRow(masterCSVRows, MasterSeparatorRow) = Len(rowDict) - 1
    /\ masterCSVRows[Len(masterCSVRows)] # MasterSeparatorRow

(***************************************************************************)
(* C7, as amended: the master report is the groups' lists in the order of  *)
(* the groups, each followed by a separator row that differs from the      *)
(* buffer row inside a group: n separator rows for n groups, the last row  *)
(* of a master report of n >= 1 groups being one; the master artifact is   *)
(* the header and these rows.                                              *)
(***************************************************************************)
C7_SeparatorAfterEveryGroup ==
  pc = "renameFiles" =>
    /\ masterCSVRows = FlatWithSeparators(rowDict)
    /\ CountRow(masterCSVRows, MasterSeparatorRow) = Len(rowDict)
    /\ Len(rowDict) >= 1 => masterCSVRows[Len(masterCSVRows)] = MasterSeparatorRow
    /\ MasterSeparatorRow # BufferRow
    /\ sent[Len(sent)].content =
         <<headers>> \o [k \in 1..Len(masterCSVRows) |-> WriteRow(masterCSVRows[k])]

\* The master report of two groups has been dispatched
C7_Witness ==
  /\ pc = "renameFiles"
  /\ Len(rowDict) = 2
  /\ CountRow(masterCSVRows, MasterSeparatorRow) = 2

(***************************************************************************)
(* C8, as claimed: a run that aborts followed by a run that succeeds, over *)
(* the same old.csv and the same upstream rows, has sent the mails and     *)
(* left the snapshots of one successful run alone.                         *)
(***************************************************************************)
C8_AbortThenSuccess == pc = "exited" /\ exitCodes = <<1, 0>>

C8_RetryHasEffectOfOneRun ==
  C8_AbortThenSuccess =>
    /\ sent = OneRunSent(oldAtStart.rows, db)
    /\ oldcsv = File(<<HeaderRow>> \o db)
    /\ newcsv = NoFile

(***************************************************************************)
(* C8, as amended: after a run that aborts and a run that succeeds, over   *)
(* the same old.csv and the same upstream rows, the snapshots are those of *)
(* one successful run alone and the second run has sent what one           *)
(* successful run sends; the mails the aborted run had sent, which are the *)
(* first of those, stay sent, so they are sent twice.                      *)
(***************************************************************************)
C8_RetryResendsWhatWasSent ==
  C8_AbortThenSuccess =>
    LET one == OneRunSent(oldAtStart.rows, db)
    IN  /\ RunSent = one
        /\ sentAtStart <= Len(one)
        /\ SubSeq(sent, 1, sentAtStart) = SubSeq(one, 1, sentAtStart)
        /\ oldcsv = File(<<HeaderRow>> \o db)
        /\ newcsv = NoFile

\* The first run aborted after sending a group's mail; the second succeeded
C8_Witness ==
  /\ C8_AbortThenSuccess
  /\ sentAtStart >= 1
  /\ Len(sent) > 2 * sentAtStart

(***************************************************************************)
(* The runs C11 and C12 speak of.                                          *)
(***************************************************************************)
LastExitCode == exitCodes[Len(exitCodes)]

\* The current run has ended because sendEmail raised, for a group or for
\* the master report
DispatchFailed == pc = "exited" /\ exception \in {"sendEmail", "sendEmailMaster"}

\* What the mails of such a run must be: the groups before the one whose
\* send raised, each once and in order, and neither that one nor any later
\* group nor the master report
OnlyEarlierGroupsSent ==
  /\ Len(RunSent) = keyIdx - 1
  /\ \A g \in 1..Len(RunSent) : RunSent[g].subject = GroupSubject(rowDict[g].key)
  /\ \A i \in 1..Len(RunSent) : RunSent[i].subject # MasterSubject
  /\ exception = "sendEmail" =>
       \A i \in 1..Len(RunSent) :
         RunSent[i].subject # GroupSubject(rowDict[keyIdx].key)

(***************************************************************************)
(* C11, as claimed: when sendEmail raises for a report, the send is not    *)
(* retried, no later group report and no master report is sent in that     *)
(* run, and the run ends with exactly one error entry added to the log and *)
(* a non-zero exit code; a run in which nothing raises ends with exactly   *)
(* one success entry added to the log and exit code 0.                     *)
(***************************************************************************)
C11_OneLogEntryPerRun ==
  /\ DispatchFailed =>
       /\ OnlyEarlierGroupsSent
       /\ logs = <<"ERROR">> \o logsAtStart
       /\ LastExitCode # 0
  /\ (pc = "exited" /\ exception = "None") =>
       /\ logs = <<"SUCCESS">> \o logsAtStart
       /\ LastExitCode = 0

(***************************************************************************)
(* C11, as amended: when sendEmail raises for a report, the send is not    *)
(* retried, no later group report and no master report is sent in that     *)
(* run, and the run ends with a non-zero exit code; a run in which nothing *)
(* raises ends with exit code 0.  Either run adds exactly one entry to the *)
(* log, an error entry or a success entry, when writing the log succeeds;  *)
(* when it raises, the run adds no entry: the log is as it was or has been *)
(* emptied.                                                                *)
(***************************************************************************)
C11_NoLogEntry == logs = logsAtStart \/ logs = <<>>

C11_FatalDispatchFailure ==
  /\ DispatchFailed =>
       /\ OnlyEarlierGroupsSent
       /\ logs = <<"ERROR">> \o logsAtStart \/ C11_NoLogEntry
       /\ LastExitCode # 0
  /\ (pc = "exited" /\ exception = "None") =>
       /\ logs = <<"SUCCESS">> \o logsAtStart \/ C11_NoLogEntry
       /\ LastExitCode = 0

\* The send of the second group's report raised in a run that found an entry
\* in the log: one mail sent, one error entry added
C11_Witness ==
  /\ DispatchFailed
  /\ exception = "sendEmail"
  /\ keyIdx = 2 /\ Len(rowDict) = 2
  /\ Len(RunSent) = 1
  /\ logsAtStart # <<>>
  /\ logs = <<"ERROR">> \o logsAtStart

(***************************************************************************)
(* C12: a run whose diff yields no new entry sends no group report; the    *)
(* only report it sends is the master report, once, made of the header     *)
(* row alone, with no data, subtotal or separator row; and when nothing    *)
(* raises it then replaces old.csv by new.csv and exits with code 0.       *)
(***************************************************************************)
\* getNewEntries has returned an empty list in the current run
C12_NoNewEntry ==
  /\ pc \in {"splitBySaleType", "addSubtotals", "for", "renameFiles",
             "logAndExit", "exited"}
  /\ exception \notin {"getData", "dumpToCSV", "getNewEntries"}
  /\ newEntries = <<>>

C12_HeaderOnlyMaster(mail) ==
  /\ mail.subject = MasterSubject
  /\ mail.recipients = recipientsDict[MasterKey]
  /\ mail.content = <<WriteRow(headers)>>

C12_EmptyDiffRun ==
  C12_NoNewEntry =>
    /\ pc # "splitBySaleType" => rowDict = <<>>
    /\ masterCSVRows = <<>>
    /\ Len(RunSent) <= 1
    /\ \A i \in 1..Len(RunSent) : C12_HeaderOnlyMaster(RunSent[i])
    /\ (pc \in {"renameFiles", "logAndExit", "exited"}
          /\ exception \in {"None", "renameFiles"}) => Len(RunSent) = 1
    /\ (pc \in {"logAndExit", "exited"} /\ exception = "None") =>
         /\ oldcsv = File(<<headers>> \o rows)
         /\ newcsv = NoFile
    /\ (pc = "exited" /\ exception = "None") => LastExitCode = 0

\* The run directly after a successful run that sent reports, the database
\* unchanged: one header-only master report, the snapshots rotated, exit 0
C12_Witness ==
  /\ C12_NoNewEntry
  /\ pc = "exited" /\ exception = "None"
  /\ run = 2 /\ exitCodes = <<0, 0>>
  /\ sentAtStart >= 2
  /\ db # <<>>
  /\ oldAtStart = oldcsv
  /\ Len(RunSent) = 1 /\ C12_HeaderOnlyMaster(RunSent[1])

=============================================================================
